---- MODULE Spec2Model ----
(***************************************************************************)
(* Model of scripts/convert_latex.py of Flag4j: the Javadoc post-processor *)
(* that injects the MathJax script into each generated html file and       *)
(* rewrites the latex-* spans into LaTeX.                                  *)
(*                                                                         *)
(* A file is modelled by the text f.read() returns for it (line ends are   *)
(* "\n").  A Python str is modelled as a sequence of characters, each a    *)
(* one-character string ("\n" is the line feed, "\\" the backslash; a      *)
(* character outside the printable ASCII ones is named by its code point,  *)
(* "U+211D", unless TLA+ has an escape for it).  The regular expressions   *)
(* of the script are modelled by a backtracking matcher with               *)
(* the semantics of Python's re: leftmost match, greedy and lazy           *)
(* quantifiers tried in order, capture groups.                             *)
(***************************************************************************)
EXTENDS Naturals, Sequences, FiniteSets

(***************************************************************************)
(* Characters.                                                             *)
(***************************************************************************)
NL == "\n"

\* The characters \s matches in a str pattern and str.strip() removes: the
\* characters of str.isspace().
WS ==
    { "\t", "\n", "U+000B", "\f", "\r", "U+001C", "U+001D", "U+001E", "U+001F", " ",
      "U+0085", "U+00A0", "U+1680", "U+2000", "U+2001", "U+2002", "U+2003", "U+2004",
      "U+2005", "U+2006", "U+2007", "U+2008", "U+2009", "U+200A", "U+2028", "U+2029",
      "U+202F", "U+205F", "U+3000" }

(***************************************************************************)
(* Regular expressions.  A pattern is a sequence of items:                 *)
(*   lit   a sequence of character sets, one character each (a literal     *)
(*         string, or under re.IGNORECASE both cases of each letter);      *)
(*   opt   an optional literal, tried present first:  (lit)?               *)
(*   star  a repeated character class, at least min times, greedy (longest *)
(*         first) or lazy (shortest first); the class is cs, or with neg   *)
(*         every character not in cs.                                      *)
(* A match is the sequence of the positions at which each item starts,     *)
(* followed by the position after the match; NoMatch is the failure.       *)
(***************************************************************************)
Lit(str) ==
    [t |-> "lit", sets |-> [i \in 1..Len(str) |-> {str[i]}],
     neg |-> FALSE, cs |-> {}, lazy |-> FALSE, min |-> 0]

LitSets(sets) ==
    [t |-> "lit", sets |-> sets, neg |-> FALSE, cs |-> {}, lazy |-> FALSE, min |-> 0]

Opt(str) ==
    [t |-> "opt", sets |-> [i \in 1..Len(str) |-> {str[i]}],
     neg |-> FALSE, cs |-> {}, lazy |-> FALSE, min |-> 0]

Star(neg, cs, lazy, min) ==
    [t |-> "star", sets |-> <<>>, neg |-> neg, cs |-> cs, lazy |-> lazy, min |-> min]

\* A replacement template: literal text and references \g<n> to groups.
Txt(str) == [g |-> 0, txt |-> str]

Grp(n) == [g |-> n, txt |-> <<>>]

\* A pattern with its capture groups (first and last item of each) and template.
Entry(items, groups, template) ==
    [items |-> items, groups |-> groups, template |-> template]

NoMatch == <<>>

\* match.start() and match.end(), as positions 1.. of the sequence.
MatchStart(r) == r[1]

MatchEnd(r) == r[Len(r)]

Accepts(it, c) == IF it.neg THEN c \notin it.cs ELSE c \in it.cs

LitAt(sets, s, pos) ==
    /\ pos + Len(sets) - 1 <= Len(s)
    /\ \A i \in 1..Len(sets) : s[pos + i - 1] \in sets[i]

\* The position after the longest run of characters of the class from pos.
RunEnd(it, s, pos) ==
    CHOOSE j \in pos..(Len(s) + 1) :
        /\ j = Len(s) + 1 \/ ~Accepts(it, s[j])
        /\ \A i \in pos..(j - 1) : Accepts(it, s[i])

\* Of the matches of the rest of the pattern, the one a quantifier prefers.
Earliest(rs) == CHOOSE r \in rs : \A q \in rs : MatchStart(r) <= MatchStart(q)

Latest(rs) == CHOOSE r \in rs : \A q \in rs : MatchStart(r) >= MatchStart(q)

RECURSIVE MatchAt(_, _, _, _)
MatchAt(items, k, s, pos) ==
    IF k > Len(items) THEN <<pos>>
    ELSE LET it == items[k] IN
      CASE it.t = "lit" ->
             IF LitAt(it.sets, s, pos)
             THEN LET r == MatchAt(items, k + 1, s, pos + Len(it.sets))
                  IN  IF r = NoMatch THEN NoMatch ELSE <<pos>> \o r
             ELSE NoMatch
        [] it.t = "opt" ->
             LET with == IF LitAt(it.sets, s, pos)
                         THEN MatchAt(items, k + 1, s, pos + Len(it.sets))
                         ELSE NoMatch
                 without == MatchAt(items, k + 1, s, pos)
             IN  IF with # NoMatch THEN <<pos>> \o with
                 ELSE IF without # NoMatch THEN <<pos>> \o without
                 ELSE NoMatch
        [] it.t = "star" ->
             LET last == RunEnd(it, s, pos)
                 rs == {MatchAt(items, k + 1, s, p) : p \in (pos + it.min)..last}
                       \ {NoMatch}
             IN  IF rs = {} THEN NoMatch
                 ELSE IF it.lazy THEN <<pos>> \o Earliest(rs)
                 ELSE <<pos>> \o Latest(rs)

\* re.finditer: the non-overlapping matches, leftmost first.  The scan visits
\* the positions lo..hi in order, cur being the position the previous match
\* ended at: a position before cur lies inside that match and is skipped.  m[p]
\* is the match that starts at p, or NoMatch.  No pattern of the script matches
\* the empty string, so each match ends after its start.  (The range is halved
\* to keep the evaluation shallow.)
RECURSIVE Scan(_, _, _, _)
Scan(m, lo, hi, cur) ==
    IF lo > hi THEN [found |-> <<>>, cur |-> cur]
    ELSE IF lo = hi
    THEN IF lo >= cur /\ m[lo] # NoMatch
         THEN [found |-> <<m[lo]>>, cur |-> MatchEnd(m[lo])]
         ELSE [found |-> <<>>, cur |-> cur]
    ELSE LET mid == (lo + hi) \div 2
             left == Scan(m, lo, mid, cur)
             right == Scan(m, mid + 1, hi, left.cur)
         IN  [found |-> left.found \o right.found, cur |-> right.cur]

FindAll(items, s) ==
    LET starts == {p \in 1..Len(s) : MatchAt(items, 1, s, p) # NoMatch}
        first == CHOOSE p \in starts : \A q \in starts : p <= q
        last == CHOOSE p \in starts : \A q \in starts : p >= q
    IN  IF starts = {} THEN <<>>
        ELSE Scan([p \in first..last |-> MatchAt(items, 1, s, p)], first, last, 1).found

\* re.search: whether the pattern matches anywhere.
Search(items, s) == \E p \in 1..Len(s) : MatchAt(items, 1, s, p) # NoMatch

\* match.group(g)
Group(pat, s, r, g) ==
    SubSeq(s, r[pat.groups[g][1]], r[pat.groups[g][2] + 1] - 1)

\* The elements lo..hi of a sequence of texts, joined.
RECURSIVE Join(_, _, _)
Join(texts, lo, hi) ==
    IF lo > hi THEN <<>>
    ELSE IF lo = hi THEN texts[lo]
    ELSE LET mid == (lo + hi) \div 2
         IN  Join(texts, lo, mid) \o Join(texts, mid + 1, hi)

\* The text of s with each match of ms replaced by the matching element of repls.
Splice(s, ms, repls) ==
    LET from(i) == IF i = 1 THEN 1 ELSE MatchEnd(ms[i - 1])
    IN  Join([i \in 1..Len(ms) |->
                SubSeq(s, from(i), MatchStart(ms[i]) - 1) \o repls[i]], 1, Len(ms))
        \o SubSeq(s, from(Len(ms) + 1), Len(s))

\* match.expand(template)
RECURSIVE Expand(_, _, _, _)
Expand(pat, s, r, i) ==
    IF i > Len(pat.template) THEN <<>>
    ELSE (IF pat.template[i].g = 0 THEN pat.template[i].txt
          ELSE Group(pat, s, r, pat.template[i].g))
         \o Expand(pat, s, r, i + 1)

\* re.sub(pattern, template, s)
ReSub(pat, s) ==
    LET ms == FindAll(pat.items, s)
    IN  Splice(s, ms, [i \in 1..Len(ms) |-> Expand(pat, s, ms[i], 1)])

\* str.replace(old, new)
StrReplace(s, old, new) == ReSub(Entry(<<Lit(old)>>, <<>>, <<Txt(new)>>), s)

\* str.strip()
StrStrip(s) ==
    LET all == Star(FALSE, WS, FALSE, 0)
        from == RunEnd(all, s, 1)
        to == CHOOSE j \in 0..Len(s) :
                /\ \A i \in (j + 1)..Len(s) : s[i] \in WS
                /\ j = 0 \/ s[j] \notin WS
    IN  SubSeq(s, from, to)

(***************************************************************************)
(* The symbol table: html2latex, in insertion order.                       *)
(***************************************************************************)
html2latex ==
  <<
    Entry(<<Lit(<<"{">>)>>,
          <<>>,
          <<Txt(<<"\\","l","e","f","t"," ","{">>)>>),
    Entry(<<Lit(<<"}">>)>>,
          <<>>,
          <<Txt(<<"\\","r","i","g","h","t"," ","}">>)>>),
    Entry(<<Lit(<<"(">>), Star(FALSE, {" "}, FALSE, 0), Star(TRUE, {"(", ")", "<", ">"}, FALSE, 1), Star(FALSE, {" "}, FALSE, 0), Lit(<<")">>), Star(FALSE, {" "}, FALSE, 0), Lit(<<"/">>), Star(FALSE, {" "}, FALSE, 0), Lit(<<"(">>), Star(FALSE, {" "}, FALSE, 0), Star(TRUE, {"(", ")", "<", ">"}, FALSE, 1), Star(FALSE, {" "}, FALSE, 0), Lit(<<")">>)>>,
          <<<<3,3>>, <<11,11>>>>,
          <<Txt(<<"\\","c","f","r","a","c","{">>), Grp(1), Txt(<<"}","{">>), Grp(2), Txt(<<"}">>)>>),
    Entry(<<Lit(<<"(">>)>>,
          <<>>,
          <<Txt(<<"\\","l","e","f","t"," ","(">>)>>),
    Entry(<<Lit(<<")">>)>>,
          <<>>,
          <<Txt(<<"\\","r","i","g","h","t"," ",")">>)>>),
    Entry(<<Lit(<<"[">>)>>,
          <<>>,
          <<Txt(<<"\\","l","e","f","t"," ","[">>)>>),
    Entry(<<Lit(<<"]">>)>>,
          <<>>,
          <<Txt(<<"\\","r","i","g","h","t"," ","]">>)>>),
    Entry(<<Lit(<<"&","S","i","g","m","a",";","<","s","u","b",">">>), Star(TRUE, {NL}, TRUE, 0), Lit(<<"<","/","s","u","b",">","<","s","u","p",">">>), Star(TRUE, {NL}, TRUE, 0), Lit(<<"<","/","s","u","p",">">>)>>,
          <<<<2,2>>, <<4,4>>>>,
          <<Txt(<<"\\","s","u","m","_","{">>), Grp(1), Txt(<<"}","^","{">>), Grp(2), Txt(<<"}">>)>>),
    Entry(<<Lit(<<"&","P","i",";","<","s","u","b",">">>), Star(TRUE, {NL}, TRUE, 0), Lit(<<"<","/","s","u","b",">","<","s","u","p",">">>), Star(TRUE, {NL}, TRUE, 0), Lit(<<"<","/","s","u","p",">">>)>>,
          <<<<2,2>>, <<4,4>>>>,
          <<Txt(<<"\\","p","r","o","d","_","{">>), Grp(1), Txt(<<"}","^","{">>), Grp(2), Txt(<<"}">>)>>),
    Entry(<<Lit(<<"&","a","l","p","h","a",";">>)>>,
          <<>>,
          <<Txt(<<"\\","a","l","p","h","a"," ">>)>>),
    Entry(<<Lit(<<"&","b","e","t","a",";">>)>>,
          <<>>,
          <<Txt(<<"\\","b","e","t","a"," ">>)>>),
    Entry(<<Lit(<<"&","g","a","m","m","a",";">>)>>,
          <<>>,
          <<Txt(<<"\\","g","a","m","m","a"," ">>)>>),
    Entry(<<Lit(<<"&","d","e","l","t","a",";">>)>>,
          <<>>,
          <<Txt(<<"\\","d","e","l","t","a"," ">>)>>),
    Entry(<<Lit(<<"&","e","p","s","i","l","o","n",";">>)>>,
          <<>>,
          <<Txt(<<"\\","e","p","s","i","l","o","n"," ">>)>>),
    Entry(<<Lit(<<"&","z","e","t","a",";">>)>>,
          <<>>,
          <<Txt(<<"\\","z","e","t","a"," ">>)>>),
    Entry(<<Lit(<<"&","e","t","a",";">>)>>,
          <<>>,
          <<Txt(<<"\\","e","t","a"," ">>)>>),
    Entry(<<Lit(<<"&","t","h","e","t","a",";">>)>>,
          <<>>,
          <<Txt(<<"\\","t","h","e","t","a"," ">>)>>),
    Entry(<<Lit(<<"&","i","o","t","a",";">>)>>,
          <<>>,
          <<Txt(<<"\\","i","o","t","a"," ">>)>>),
    Entry(<<Lit(<<"&","k","a","p","p","a",";">>)>>,
          <<>>,
          <<Txt(<<"\\","k","a","p","p","a"," ">>)>>),
    Entry(<<Lit(<<"&","l","a","m","b","d","a",";">>)>>,
          <<>>,
          <<Txt(<<"\\","l","a","m","b","d","a"," ">>)>>),
    Entry(<<Lit(<<"&","m","u",";">>)>>,
          <<>>,
          <<Txt(<<"\\","m","u"," ">>)>>),
    Entry(<<Lit(<<"&","n","u",";">>)>>,
          <<>>,
          <<Txt(<<"\\","n","u"," ">>)>>),
    Entry(<<Lit(<<"&","x","i",";">>)>>,
          <<>>,
          <<Txt(<<"\\","x","i"," ">>)>>),
    Entry(<<Lit(<<"&","o","m","i","c","r","o","n",";">>)>>,
          <<>>,
          <<Txt(<<"\\","o","m","i","c","r","o","n"," ">>)>>),
    Entry(<<Lit(<<"&","p","i",";">>)>>,
          <<>>,
          <<Txt(<<"\\","p","i"," ">>)>>),
    Entry(<<Lit(<<"&","r","h","o",";">>)>>,
          <<>>,
          <<Txt(<<"\\","r","h","o"," ">>)>>),
    Entry(<<Lit(<<"&","s","i","g","m","a",";">>)>>,
          <<>>,
          <<Txt(<<"\\","s","i","g","m","a"," ">>)>>),
    Entry(<<Lit(<<"&","t","a","u",";">>)>>,
          <<>>,
          <<Txt(<<"\\","t","a","u"," ">>)>>),
    Entry(<<Lit(<<"&","u","p","s","i","l","o","n",";">>)>>,
          <<>>,
          <<Txt(<<"\\","u","p","s","i","l","o","n"," ">>)>>),
    Entry(<<Lit(<<"&","p","h","i",";">>)>>,
          <<>>,
          <<Txt(<<"\\","p","h","i"," ">>)>>),
    Entry(<<Lit(<<"&","c","h","i",";">>)>>,
          <<>>,
          <<Txt(<<"\\","c","h","i"," ">>)>>),
    Entry(<<Lit(<<"&","p","s","i",";">>)>>,
          <<>>,
          <<Txt(<<"\\","p","s","i"," ">>)>>),
    Entry(<<Lit(<<"&","o","m","e","g","a",";">>)>>,
          <<>>,
          <<Txt(<<"\\","o","m","e","g","a"," ">>)>>),
    Entry(<<Lit(<<"&","A","l","p","h","a",";">>)>>,
          <<>>,
          <<Txt(<<"\\","A","l","p","h","a"," ">>)>>),
    Entry(<<Lit(<<"&","B","e","t","a",";">>)>>,
          <<>>,
          <<Txt(<<"\\","B","e","t","a"," ">>)>>),
    Entry(<<Lit(<<"&","G","a","m","m","a",";">>)>>,
          <<>>,
          <<Txt(<<"\\","G","a","m","m","a"," ">>)>>),
    Entry(<<Lit(<<"&","D","e","l","t","a",";">>)>>,
          <<>>,
          <<Txt(<<"\\","D","e","l","t","a"," ">>)>>),
    Entry(<<Lit(<<"&","E","p","s","i","l","o","n",";">>)>>,
          <<>>,
          <<Txt(<<"\\","E","p","s","i","l","o","n"," ">>)>>),
    Entry(<<Lit(<<"&","Z","e","t","a",";">>)>>,
          <<>>,
          <<Txt(<<"\\","Z","e","t","a"," ">>)>>),
    Entry(<<Lit(<<"&","E","t","a",";">>)>>,
          <<>>,
          <<Txt(<<"\\","E","t","a"," ">>)>>),
    Entry(<<Lit(<<"&","T","h","e","t","a",";">>)>>,
          <<>>,
          <<Txt(<<"\\","T","h","e","t","a"," ">>)>>),
    Entry(<<Lit(<<"&","I","o","t","a",";">>)>>,
          <<>>,
          <<Txt(<<"\\","I","o","t","a"," ">>)>>),
    Entry(<<Lit(<<"&","K","a","p","p","a",";">>)>>,
          <<>>,
          <<Txt(<<"\\","K","a","p","p","a"," ">>)>>),
    Entry(<<Lit(<<"&","L","a","m","b","d","a",";">>)>>,
          <<>>,
          <<Txt(<<"\\","L","a","m","b","d","a"," ">>)>>),
    Entry(<<Lit(<<"&","M","u",";">>)>>,
          <<>>,
          <<Txt(<<"\\","M","u"," ">>)>>),
    Entry(<<Lit(<<"&","N","u",";">>)>>,
          <<>>,
          <<Txt(<<"\\","N","u"," ">>)>>),
    Entry(<<Lit(<<"&","X","i",";">>)>>,
          <<>>,
          <<Txt(<<"\\","X","i"," ">>)>>),
    Entry(<<Lit(<<"&","O","m","i","c","r","o","n",";">>)>>,
          <<>>,
          <<Txt(<<"\\","O","m","i","c","r","o","n"," ">>)>>),
    Entry(<<Lit(<<"&","P","i",";">>)>>,
          <<>>,
          <<Txt(<<"\\","P","i"," ">>)>>),
    Entry(<<Lit(<<"&","R","h","o",";">>)>>,
          <<>>,
          <<Txt(<<"\\","R","h","o"," ">>)>>),
    Entry(<<Lit(<<"&","S","i","g","m","a",";">>)>>,
          <<>>,
          <<Txt(<<"\\","S","i","g","m","a"," ">>)>>),
    Entry(<<Lit(<<"&","T","a","u",";">>)>>,
          <<>>,
          <<Txt(<<"\\","T","a","u"," ">>)>>),
    Entry(<<Lit(<<"&","U","p","s","i","l","o","n",";">>)>>,
          <<>>,
          <<Txt(<<"\\","U","p","s","i","l","o","n"," ">>)>>),
    Entry(<<Lit(<<"&","P","h","i",";">>)>>,
          <<>>,
          <<Txt(<<"\\","P","h","i"," ">>)>>),
    Entry(<<Lit(<<"&","C","h","i",";">>)>>,
          <<>>,
          <<Txt(<<"\\","C","h","i"," ">>)>>),
    Entry(<<Lit(<<"&","P","s","i",";">>)>>,
          <<>>,
          <<Txt(<<"\\","P","s","i"," ">>)>>),
    Entry(<<Lit(<<"&","O","m","e","g","a",";">>)>>,
          <<>>,
          <<Txt(<<"\\","O","m","e","g","a"," ">>)>>),
    Entry(<<Lit(<<"<","s","u","b",">">>)>>,
          <<>>,
          <<Txt(<<"_","{">>)>>),
    Entry(<<Lit(<<"<","/","s","u","b",">">>)>>,
          <<>>,
          <<Txt(<<"}">>)>>),
    Entry(<<Lit(<<"<","s","u","p",">">>)>>,
          <<>>,
          <<Txt(<<"^","{">>)>>),
    Entry(<<Lit(<<"<","/","s","u","p",">">>)>>,
          <<>>,
          <<Txt(<<"}">>)>>),
    Entry(<<Lit(<<"<","b",">">>), Star(TRUE, {NL}, TRUE, 0), Lit(<<"<","/","b",">">>)>>,
          <<<<2,2>>>>,
          <<Txt(<<"\\","m","a","t","h","b","f","{">>), Grp(1), Txt(<<"}">>)>>),
    Entry(<<Lit(<<"<","s","t","r","o","n","g",">">>), Star(TRUE, {NL}, TRUE, 0), Lit(<<"<","/","s","t","r","o","n","g",">">>)>>,
          <<<<2,2>>>>,
          <<Txt(<<"\\","m","a","t","h","b","f","{">>), Grp(1), Txt(<<"}">>)>>),
    Entry(<<Lit(<<"U+211D">>)>>,
          <<>>,
          <<Txt(<<"\\","m","a","t","h","b","b","{","R","}">>)>>),
    Entry(<<Lit(<<"U+211A">>)>>,
          <<>>,
          <<Txt(<<"\\","m","a","t","h","b","b","{","Q","}">>)>>),
    Entry(<<Lit(<<"U+2102">>)>>,
          <<>>,
          <<Txt(<<"\\","m","a","t","h","b","b","{","C","}">>)>>),
    Entry(<<Lit(<<"U+2124">>)>>,
          <<>>,
          <<Txt(<<"\\","m","a","t","h","b","b","{","Z","}">>)>>),
    Entry(<<Lit(<<"U+2115">>)>>,
          <<>>,
          <<Txt(<<"\\","m","a","t","h","b","b","{","N","}">>)>>),
    Entry(<<Lit(<<"&","l","t",";">>)>>,
          <<>>,
          <<Txt(<<"<">>)>>),
    Entry(<<Lit(<<"&","g","t",";">>)>>,
          <<>>,
          <<Txt(<<">">>)>>),
    Entry(<<Lit(<<"&","l","e",";">>)>>,
          <<>>,
          <<Txt(<<"\\","l","e","q"," ">>)>>),
    Entry(<<Lit(<<"&","g","e",";">>)>>,
          <<>>,
          <<Txt(<<"\\","g","e","q"," ">>)>>),
    Entry(<<Lit(<<"&","n","e",";">>)>>,
          <<>>,
          <<Txt(<<"\\","n","e","q"," ">>)>>),
    Entry(<<Lit(<<"&","p","l","u","s","m","n",";">>)>>,
          <<>>,
          <<Txt(<<"\\","p","m"," ">>)>>),
    Entry(<<Lit(<<"&","i","s","i","n",";">>)>>,
          <<>>,
          <<Txt(<<"\\","i","n"," ">>)>>),
    Entry(<<Lit(<<"&","n","o","t","i","n",";">>)>>,
          <<>>,
          <<Txt(<<"\\","n","o","t","i","n"," ">>)>>),
    Entry(<<Lit(<<"&","r","a","d","i","c",";","(">>), Star(TRUE, {NL}, FALSE, 0), Lit(<<")">>)>>,
          <<<<2,2>>>>,
          <<Txt(<<"\\","s","q","r","t","{">>), Grp(1), Txt(<<"}">>)>>),
    Entry(<<Lit(<<"&","a","s","y","m","p",";">>)>>,
          <<>>,
          <<Txt(<<"\\","a","p","p","r","o","x"," ">>)>>),
    Entry(<<Lit(<<"&","o","p","l","u","s",";">>)>>,
          <<>>,
          <<Txt(<<"\\","o","p","l","u","s"," ">>)>>),
    Entry(<<Lit(<<"&","I","m","p","l","i","e","s",";">>)>>,
          <<>>,
          <<Txt(<<"\\","i","m","p","l","i","e","s">>)>>),
    Entry(<<Lit(<<"&","t","i","m","e","s",";">>)>>,
          <<>>,
          <<Txt(<<"\\","t","i","m","e","s">>)>>),
    Entry(<<Lit(<<"&","m","i","d","d","o","t",";">>)>>,
          <<>>,
          <<Txt(<<"\\","c","d","o","t">>)>>),
    Entry(<<Lit(<<"&","i","n","f","i","n",";">>)>>,
          <<>>,
          <<Txt(<<"\\","i","n","f"," ">>)>>),
    Entry(<<Lit(<<".",".",".">>)>>,
          <<>>,
          <<Txt(<<"\\","c","d","o","t","s"," ">>)>>),
    Entry(<<Lit(<<"&","e","l","l",";">>)>>,
          <<>>,
          <<Txt(<<"\\","e","l","l"," ">>)>>)
  >>

mathjax_script ==
    <<"<","s","c","r","i","p","t"," ","i","d","=","\"","M","a","t","h","J","a","x","-","s","c","r","i","p","t","\""," ","a","s","y","n","c"," ","s","r","c","=","\"","h","t","t","p","s",":","/","/","c","d","n",".","j","s","d","e","l","i","v","r",".","n","e","t","/","n","p","m","/","m","a","t","h","j","a","x","@","3","/","e","s","5","/","t","e","x","-","m","m","l","-","c","h","t","m","l",".","j","s","\"",">","<","/","s","c","r","i","p","t",">">>

\* r'<head.*?>' under re.IGNORECASE
head_pattern ==
    Entry(<<LitSets(<<{"<"}, {"h", "H"}, {"e", "E"}, {"a", "A"}, {"d", "D"}>>),
            Star(TRUE, {NL}, TRUE, 0), Lit(<<">">>)>>, <<>>, <<>>)

inject_mathjax(content) ==
    IF Search(head_pattern.items, content)
    THEN LET head_match == FindAll(head_pattern.items, content)[1]
             head_end == MatchEnd(head_match)
         IN  SubSeq(content, 1, head_end - 1) \o <<"\n"," "," "," "," ">> \o mathjax_script
             \o SubSeq(content, head_end, Len(content))
    ELSE content

\* for pattern, replacement in html2latex.items(): content = re.sub(...)
\* for pattern, replacement in html2latex.items(): content = re.sub(...), for the
\* entries lo..hi in order.  The range is halved, not walked entry by entry, and
\* the first half is compared with the text it started from, only to keep the
\* evaluation shallow: the second half gets the first half's result either way.
RECURSIVE ApplyTable(_, _, _)
ApplyTable(content, lo, hi) ==
    IF lo = hi THEN ReSub(html2latex[lo], content)
    ELSE LET mid == (lo + hi) \div 2
             half == ApplyTable(content, lo, mid)
         IN  IF half = content THEN ApplyTable(content, mid + 1, hi)
             ELSE ApplyTable(half, mid + 1, hi)

\* A table in which the division rule (entry 3) comes after the parenthesis and
\* bracket rules (entries 4 to 7) instead of before them.
convert_fragment_division_late(content) ==
    ApplyTable(ReSub(html2latex[3], ApplyTable(ApplyTable(content, 1, 2), 4, 7)),
               8, Len(html2latex))

convert_fragment(content) == ApplyTable(content, 1, Len(html2latex))

convert_simple(inner, opened, closed) ==
    LET content == StrStrip(StrReplace(StrReplace(inner, <<"<","p","r","e",">">>, <<>>), <<"<","/","p","r","e",">">>, <<>>))
    IN  opened \o <<" ">> \o convert_fragment(content) \o <<" ">> \o closed

convert_simple_inline(inner) == convert_simple(inner, <<"\\","(">>, <<"\\",")">>)

convert_simple_display(inner) == convert_simple(inner, <<"\\","[">>, <<"\\","]">>)

\* The chain with .replace("\\n", ...) before .strip() instead of after it.
convert_simple_aligned_break_first(inner, align_token, align_replacement) ==
    LET content ==
          StrStrip(
            StrReplace(
              StrReplace(
                StrReplace(StrReplace(inner, <<"<","p","r","e",">">>, <<>>), <<"<","/","p","r","e",">">>, <<>>),
                align_token, <<"&">> \o align_replacement),
              <<NL>>, <<" ","\\","\\"," ","\n">>))
    IN  <<"\\","["," ","\\","b","e","g","i","n","{","a","l","i","g","n","*","}"," ">> \o convert_fragment(content) \o <<" ","\\","e","n","d","{","a","l","i","g","n","*","}"," ","\\","]">>

convert_simple_aligned(inner, align_token, align_replacement) ==
    LET content ==
          StrReplace(
            StrStrip(
              StrReplace(
                StrReplace(StrReplace(inner, <<"<","p","r","e",">">>, <<>>), <<"<","/","p","r","e",">">>, <<>>),
                align_token, <<"&">> \o align_replacement)),
            <<NL>>, <<" ","\\","\\"," ","\n">>)
    IN  <<"\\","["," ","\\","b","e","g","i","n","{","a","l","i","g","n","*","}"," ">> \o convert_fragment(content) \o <<" ","\\","e","n","d","{","a","l","i","g","n","*","}"," ","\\","]">>

convert_simple_eq_aligned(inner) == convert_simple_aligned(inner, <<"=">>, <<"=">>)

convert_simple_impl_aligned(inner) ==
    convert_simple_aligned(inner, <<"&","I","m","p","l","i","e","s",";">>, <<"\\","i","m","p","l","i","e","s">>)

\* r'<span class="latex-KIND">\s*(.*?)\s*</span>' under re.DOTALL
SpanPattern(kind) ==
    Entry(<<Lit(<<"<","s","p","a","n"," ","c","l","a","s","s","=","\"","l","a","t","e","x","-">> \o kind \o <<"\"",">">>), Star(FALSE, WS, FALSE, 0),
            Star(TRUE, {}, TRUE, 0), Star(FALSE, WS, FALSE, 0), Lit(<<"<","/","s","p","a","n",">">>)>>,
          <<<<3, 3>>>>, <<>>)

\* r'(<span class="latex-replaceable">.*?</span>)\s*<!-- LATEX:\s*(\{@literal)?\s*(.*?)\s*(\})?\s* -->'
\* under re.DOTALL
literal_pattern ==
    Entry(<<Lit(<<"<","s","p","a","n"," ","c","l","a","s","s","=","\"","l","a","t","e","x","-","r","e","p","l","a","c","e","a","b","l","e","\"",">">>), Star(TRUE, {}, TRUE, 0),
            Lit(<<"<","/","s","p","a","n",">">>), Star(FALSE, WS, FALSE, 0), Lit(<<"<","!","-","-"," ","L","A","T","E","X",":">>),
            Star(FALSE, WS, FALSE, 0), Opt(<<"{","@","l","i","t","e","r","a","l">>), Star(FALSE, WS, FALSE, 0),
            Star(TRUE, {}, TRUE, 0), Star(FALSE, WS, FALSE, 0), Opt(<<"}">>),
            Star(FALSE, WS, FALSE, 0), Lit(<<" ","-","-",">">>)>>,
          <<<<1, 3>>, <<7, 7>>, <<9, 9>>, <<11, 11>>>>, <<>>)

replace_match(s, r) == Group(literal_pattern, s, r, 3)

InlinePass(content) ==
    LET pat == SpanPattern(<<"i","n","l","i","n","e">>)
        ms == FindAll(pat.items, content)
    IN  Splice(content, ms,
               [i \in 1..Len(ms) |-> convert_simple_inline(Group(pat, content, ms[i], 1))])

DisplayPass(content) ==
    LET pat == SpanPattern(<<"d","i","s","p","l","a","y">>)
        ms == FindAll(pat.items, content)
    IN  Splice(content, ms,
               [i \in 1..Len(ms) |-> convert_simple_display(Group(pat, content, ms[i], 1))])

EqAlignedPass(content) ==
    LET pat == SpanPattern(<<"e","q","-","a","l","i","g","n","e","d">>)
        ms == FindAll(pat.items, content)
    IN  Splice(content, ms,
               [i \in 1..Len(ms) |-> convert_simple_eq_aligned(Group(pat, content, ms[i], 1))])

ImplAlignedPass(content) ==
    LET pat == SpanPattern(<<"i","m","p","l","-","a","l","i","g","n","e","d">>)
        ms == FindAll(pat.items, content)
    IN  Splice(content, ms,
               [i \in 1..Len(ms) |-> convert_simple_impl_aligned(Group(pat, content, ms[i], 1))])

LiteralPass(content) ==
    LET ms == FindAll(literal_pattern.items, content)
    IN  Splice(content, ms, [i \in 1..Len(ms) |-> replace_match(content, ms[i])])

\* What process_javadoc writes back for a file that holds content.
Converted(content) ==
    LiteralPass(ImplAlignedPass(EqAlignedPass(DisplayPass(InlinePass(inject_mathjax(content))))))

(***************************************************************************)
(* Bounds of the model.                                                    *)
(***************************************************************************)
\* Files the glob enumerates.
NumFiles == 2

\* Invocations of the script on the same directory.
MaxRuns == 2

\* Length of an operand of a division, of a radicand, of a literal payload.
MaxOperandLen == 2

\* Pieces a document handed to inject_mathjax is assembled from.
MaxPieces == 2

\* Paths of the directory the script may not read or may not write.
MaxFaults == 1

\* Places at which a write that fails is taken to stop.
MaxCuts == 3

(***************************************************************************)
(* State.                                                                  *)
(***************************************************************************)
VARIABLES
    files,        \* the text each enumerated path holds, in glob order
    links,        \* for each path, the paths of the same file (links of one file)
    readable,     \* whether open(file_path, "r") and f.read() succeed on the path
    writable,     \* whether open(file_path, "w") succeeds on the path
    before,       \* history: the files as the current run of the script found them
    reads,        \* history: how often the current run read each path
    writes,       \* history: how often the current run opened each path for writing
    text_read,    \* history: what f.read() returned for each path in the current run
    text_written, \* history: what f.write() stored through each path in the current run
    runs,         \* invocations of the script so far
    file,         \* the loop variable of the module's for loop (position in the glob)
    pc,           \* where the run is
    error,        \* the call that raised the exception the run ended with
    content,      \* process_javadoc's local variable
    fn,           \* SpecCalls: the function called
    given,        \* SpecCalls, history: the pieces the argument was assembled from
    arg,          \* SpecCalls: the argument
    ret,          \* SpecCalls: the value returned
    returned      \* SpecCalls: whether the call has returned

vars == <<files, links, readable, writable, before, reads, writes, text_read,
          text_written, runs, file, pc, error, content, fn, given, arg, ret, returned>>

batch_vars == <<files, links, readable, writable, before, reads, writes, text_read,
                text_written, runs, file, pc, error, content>>

\* What the run finds and cannot change: which paths are one file, what it may do
\* with each, and what the devices take.
directory == <<links, readable, writable>>

call_vars == <<fn, given, arg, ret, returned>>

Files == 1..NumFiles

(***************************************************************************)
(* Spec: the script run on a directory of NumFiles files.                  *)
(***************************************************************************)
\* The documents the files hold at first.
BatchDocs ==
    { <<"<","h","e","a","d","e","r",">","x">>,
      <<"<","h","e","a","d","e","r",">","<","h","e","a","d",">","y">>,
      <<"<","H","E","A","D"," ","l","a","n","g","=","\"","e","n","\"",">","\n","<","s","p","a","n"," ","c","l","a","s","s","=","\"","l","a","t","e","x","-","d","i","s","p","l","a","y","\"",">"," ","&","S","i","g","m","a",";","<","s","u","b",">","i","<","/","s","u","b",">","<","s","u","p",">","n","<","/","s","u","p",">"," ","(","a",")","/","(","b",")"," ","<","/","s","p","a","n",">">>
        \o <<"<","s","p","a","n"," ","c","l","a","s","s","=","\"","l","a","t","e","x","-","e","q","-","a","l","i","g","n","e","d","\"",">","a"," ","="," ","b","\n","c"," ","="," ","d","<","/","s","p","a","n",">","<","s","p","a","n"," ","c","l","a","s","s","=","\"","l","a","t","e","x","-","i","m","p","l","-","a","l","i","g","n","e","d","\"",">","p"," ","&","I","m","p","l","i","e","s",";"," ","q","<","/","s","p","a","n",">">>
        \o <<"<","s","p","a","n"," ","c","l","a","s","s","=","\"","l","a","t","e","x","-","i","n","l","i","n","e","\"",">","&","a","l","p","h","a",";","<","/","s","p","a","n",">">>
        \o <<"<","s","p","a","n"," ","c","l","a","s","s","=","\"","l","a","t","e","x","-","r","e","p","l","a","c","e","a","b","l","e","\"",">","k","<","/","s","p","a","n",">"," ","<","!","-","-"," ","L","A","T","E","X",":"," ","{","@","l","i","t","e","r","a","l"," ","\\","p","i","}"," ","-","-",">">> }

\* The ways the enumerated paths share files: a path may be a symbolic or a hard
\* link of the file of another path.
Links ==
    {l \in [Files -> SUBSET Files] :
        \A f \in Files : f \in l[f] /\ \A g \in l[f] : l[g] = l[f]}

NoCall ==
    /\ fn = "none"
    /\ given = <<>>
    /\ arg = <<>>
    /\ ret = <<>>
    /\ returned = FALSE

Unread == [f \in Files |-> <<>>]

\* A path that cannot be read is never opened for writing: it counts as not
\* writable.
Init ==
    /\ links \in Links
    /\ files \in {d \in [Files -> BatchDocs] : \A f \in Files : \A g \in links[f] : d[g] = d[f]}
    /\ readable \in [Files -> BOOLEAN]
    /\ writable \in {w \in [Files -> BOOLEAN] : \A f \in Files : w[f] => readable[f]}
    /\ Cardinality({f \in Files : ~writable[f]}) <= MaxFaults
    /\ before = files
    /\ reads = [f \in Files |-> 0]
    /\ writes = [f \in Files |-> 0]
    /\ text_read = Unread
    /\ text_written = Unread
    /\ runs = 1
    /\ file = 1
    /\ pc = "for"
    /\ error = "none"
    /\ content = <<>>
    /\ NoCall

\* A loop that catches the exception and goes on with the next file.
OnReadError_skip(f) == [pc |-> "for", file |-> f + 1]

\* An exception raised in process_javadoc: nothing catches it, the interpreter exits.
OnReadError(f) == [pc |-> "aborted", file |-> f]

\* for file in glob.glob(...): process_javadoc(file); with open(file_path, "r") ...
\* f.read(); print(... parsing file ...)
Open ==
    /\ pc = "for"
    /\ file \in Files
    /\ readable[file]
    /\ content' = files[file]
    /\ reads' = [reads EXCEPT ![file] = @ + 1]
    /\ text_read' = [text_read EXCEPT ![file] = files[file]]
    /\ pc' = "inject"
    /\ UNCHANGED <<files, before, writes, text_written, runs, file, error>>
    /\ UNCHANGED directory
    /\ UNCHANGED call_vars

\* open(file_path, "r") or f.read() raises.
ReadError ==
    /\ pc = "for"
    /\ file \in Files
    /\ ~readable[file]
    /\ pc' = OnReadError(file).pc
    /\ file' = OnReadError(file).file
    /\ error' = "read"
    /\ UNCHANGED <<files, before, reads, writes, text_read, text_written, runs, content>>
    /\ UNCHANGED directory
    /\ UNCHANGED call_vars

\* The run ends with the exception of the call named by what.
Raise(what) ==
    /\ pc' = "aborted"
    /\ error' = what
    /\ content' = <<>>
    /\ UNCHANGED <<before, runs, file>>
    /\ UNCHANGED directory
    /\ UNCHANGED call_vars

\* A print raises, because stdout does not take the line (a full device, a pipe
\* whose reader is gone); which print it is depends on the device and on the
\* buffer of sys.stdout, not on the script.  In process_javadoc the file has been
\* read and is not written: the print in the with block of the read (line 178),
\* the one in inject_mathjax or the one after it (lines 92, 182), the one after
\* the literal pass (line 203).  The last case is the print of the completion
\* message (line 213), after the loop.
PrintError ==
    /\ \/ /\ pc = "for"
          /\ file \in Files
          /\ readable[file]
          /\ reads' = [reads EXCEPT ![file] = @ + 1]
          /\ text_read' = [text_read EXCEPT ![file] = files[file]]
       \/ /\ pc \in {"inject", "literal"}
          /\ UNCHANGED <<reads, text_read>>
       \/ /\ pc = "for"
          /\ file = NumFiles + 1
          /\ UNCHANGED <<reads, text_read>>
    /\ Raise("print")
    /\ UNCHANGED <<files, writes, text_written>>

\* A statement of process_javadoc and, when it succeeds, the print that follows
\* it, if any.
Step(at, result, to) ==
    /\ pc = at
    /\ content' = result
    /\ pc' = to
    /\ UNCHANGED <<files, before, reads, writes, text_read, text_written, runs, file, error>>
    /\ UNCHANGED directory
    /\ UNCHANGED call_vars

Inject == Step("inject", inject_mathjax(content), "inline")

Inline == Step("inline", InlinePass(content), "display")

Display == Step("display", DisplayPass(content), "eq")

EqAligned == Step("eq", EqAlignedPass(content), "impl")

ImplAligned == Step("impl", ImplAlignedPass(content), "literal")

Literal == Step("literal", LiteralPass(content), "write")

\* What the paths hold when text is stored through path f.
Stored(f, text) == [g \in Files |-> IF g \in links[f] THEN text ELSE files[g]]

\* with open(file_path, "w") as f: f.write(content), when all of the text is
\* stored; then the loop's next file
Write ==
    /\ pc = "write"
    /\ writable[file]
    /\ files' = Stored(file, content)
    /\ writes' = [writes EXCEPT ![file] = @ + 1]
    /\ text_written' = [text_written EXCEPT ![file] = content]
    /\ file' = file + 1
    /\ pc' = "for"
    /\ content' = <<>>
    /\ UNCHANGED <<before, reads, text_read, runs, error>>
    /\ UNCHANGED directory
    /\ UNCHANGED call_vars

\* open(file_path, "w") raises: the file is as it was.
OpenError ==
    /\ pc = "write"
    /\ ~writable[file]
    /\ Raise("open")
    /\ UNCHANGED <<files, reads, writes, text_read, text_written>>

\* The lengths of the part of a text that a failing write is taken to store: a
\* write that fails stores less than the text, and of these lengths the model
\* takes MaxCuts, evenly spaced from nothing on.
Cuts(text) == {(k * Len(text)) \div MaxCuts : k \in 0..(MaxCuts - 1)}

\* open(file_path, "w") has emptied the file and the device does not take all of
\* the text (it is full, or the file would pass the limit of its size): the
\* write or the close raises and the file is left with the part that was stored.
WriteError ==
    /\ pc = "write"
    /\ writable[file]
    /\ content # <<>>
    /\ \E n \in Cuts(content) :
         /\ files' = Stored(file, SubSeq(content, 1, n))
         /\ text_written' = [text_written EXCEPT ![file] = SubSeq(content, 1, n)]
    /\ writes' = [writes EXCEPT ![file] = @ + 1]
    /\ Raise("write")
    /\ UNCHANGED <<reads, text_read>>

\* print("[LATEX CONVERT] -- complete"), when it succeeds
Complete ==
    /\ pc = "for"
    /\ file = NumFiles + 1
    /\ pc' = "complete"
    /\ UNCHANGED <<files, before, reads, writes, text_read, text_written, runs, file,
                   error, content>>
    /\ UNCHANGED directory
    /\ UNCHANGED call_vars

\* The script is run again on the directory it has converted.
Rerun ==
    /\ pc = "complete"
    /\ runs < MaxRuns
    /\ runs' = runs + 1
    /\ before' = files
    /\ reads' = [f \in Files |-> 0]
    /\ writes' = [f \in Files |-> 0]
    /\ text_read' = Unread
    /\ text_written' = Unread
    /\ file' = 1
    /\ pc' = "for"
    /\ error' = "none"
    /\ UNCHANGED <<files, content>>
    /\ UNCHANGED directory
    /\ UNCHANGED call_vars

Next ==
    \/ Open
    \/ ReadError
    \/ PrintError
    \/ Inject
    \/ Inline
    \/ Display
    \/ EqAligned
    \/ ImplAligned
    \/ Literal
    \/ Write
    \/ OpenError
    \/ WriteError
    \/ Complete
    \/ Rerun

Spec == Init /\ [][Next]_vars

(***************************************************************************)
(* SpecCalls: one call of one of the script's functions on an argument     *)
(* assembled from pieces.                                                  *)
(***************************************************************************)
RECURSIVE StringsUpTo(_, _)
StringsUpTo(alphabet, n) ==
    IF n = 0 THEN {<<>>}
    ELSE LET shorter == StringsUpTo(alphabet, n - 1)
         IN  shorter \cup {Append(s, c) : s \in shorter, c \in alphabet}

\* Operands of a division and radicands: no parenthesis, no angle bracket, nothing
\* else the symbol table rewrites.
Operands == StringsUpTo({"a", " ", "+"}, MaxOperandLen)

Division(A, B) == <<"(">> \o A \o <<")","/","(">> \o B \o <<")">>

Radical(X) == <<"&","r","a","d","i","c",";","(">> \o X \o <<")">>

FragmentInputs ==
    {[kind |-> "division", a |-> A, b |-> B, text |-> Division(A, B)] :
        A \in Operands, B \in Operands}
    \cup {[kind |-> "radical", a |-> X, b |-> <<>>, text |-> Radical(X)] : X \in Operands}

\* Documents with and without a head element.
HeadPieces == { <<"<","h","e","a","d",">">>, <<"<","H","E","A","D"," ","l","a","n","g","=","\"","e","n","\"",">">>, <<"<","h","e","a","d","e","r",">">>, <<"<","h","e","a","d","i","n","g",">">>, <<"<","p",">","x","<","/","p",">">>, <<"\n">> }

RECURSIVE Flatten(_)
Flatten(ps) == IF ps = <<>> THEN <<>> ELSE Head(ps) \o Flatten(Tail(ps))

HeadInputs ==
    {[kind |-> "document", a |-> <<>>, b |-> <<>>, text |-> Flatten(ps)] :
        ps \in UNION {[1..n -> HeadPieces] : n \in 0..MaxPieces}}

\* The two sides of an equation, and what may surround the lines of a span.
Sides == { <<"a">>, <<"b"," ">>, <<" ","c">>, <<"U+2003", "d", "U+00A0">> }

Equation(l, r) == l \o <<"=">> \o r

EqAlignedSpan(inner) == <<"<","s","p","a","n"," ","c","l","a","s","s","=","\"","l","a","t","e","x","-","e","q","-","a","l","i","g","n","e","d","\"",">">> \o inner \o <<"<","/","s","p","a","n",">">>

EqInputs ==
    {[kind |-> "two-equations", a |-> <<l1, r1>>, b |-> <<l2, r2>>,
      text |-> <<"p"," ">> \o EqAlignedSpan(Equation(l1, r1) \o <<NL>> \o Equation(l2, r2)) \o <<" ","q">>] :
        l1 \in Sides, r1 \in Sides, l2 \in Sides, r2 \in Sides}
    \cup {[kind |-> "two-equations-pre", a |-> <<l, r>>, b |-> <<r, l>>,
           text |-> EqAlignedSpan(<<"<","p","r","e",">","\n">> \o Equation(l, r) \o <<NL>> \o Equation(r, l)
                                  \o <<"\n","<","/","p","r","e",">">>)] :
            l \in Sides, r \in Sides}

\* Literal regions: a latex-replaceable span and its marker comment.
Payloads == StringsUpTo({"a", "}", " "}, MaxOperandLen) \ {<<>>}

ReplaceableSpan(inner) == <<"<","s","p","a","n"," ","c","l","a","s","s","=","\"","l","a","t","e","x","-","r","e","p","l","a","c","e","a","b","l","e","\"",">">> \o inner \o <<"<","/","s","p","a","n",">">>

WrappedComment(payload) == <<"<","!","-","-"," ","L","A","T","E","X",":"," ","{","@","l","i","t","e","r","a","l"," ">> \o payload \o <<"}"," ","-","-",">">>

BareComment(payload) == <<"<","!","-","-"," ","L","A","T","E","X",":"," ">> \o payload \o <<" ","-","-",">">>

Gaps == { <<>>, <<"\n"," "," ">>, <<"U+00A0">> }

LiteralInputs ==
    {[kind |-> "wrapped", a |-> p, b |-> g,
      text |-> <<"p"," ">> \o ReplaceableSpan(<<"I","G","N","O","R","E","D">>) \o g \o WrappedComment(p) \o <<" ","q">>] :
        p \in Payloads, g \in Gaps}
    \cup {[kind |-> "bare", a |-> p, b |-> g,
           text |-> <<"p"," ">> \o ReplaceableSpan(<<"I","G","N","O","R","E","D">>) \o g \o BareComment(p) \o <<" ","q">>] :
            p \in Payloads, g \in Gaps}
    \cup {[kind |-> "unpaired", a |-> m, b |-> p,
           text |-> ReplaceableSpan(<<"A">>) \o m \o ReplaceableSpan(<<"B">>) \o BareComment(p)] :
            m \in { <<>>, <<" ","a","n","d"," ">>, <<"<","!","-","-"," ","n","o","t","e"," ","-","-",">">> }, p \in { <<"x">>, <<"y"," ","z">> }}

InitCalls ==
    /\ files = <<>>
    /\ links = <<>>
    /\ readable = <<>>
    /\ writable = <<>>
    /\ before = <<>>
    /\ reads = <<>>
    /\ writes = <<>>
    /\ text_read = <<>>
    /\ text_written = <<>>
    /\ runs = 0
    /\ file = 0
    /\ pc = "call"
    /\ error = "none"
    /\ content = <<>>
    /\ \/ fn = "convert_fragment" /\ given \in FragmentInputs
       \/ fn = "inject_mathjax" /\ given \in HeadInputs
       \/ fn = "EqAlignedPass" /\ given \in EqInputs
       \/ fn = "LiteralPass" /\ given \in LiteralInputs
    /\ arg = given.text
    /\ ret = <<>>
    /\ returned = FALSE

Call(name, result) ==
    /\ fn = name
    /\ ~returned
    /\ ret' = result
    /\ returned' = TRUE
    /\ UNCHANGED <<fn, given, arg>>
    /\ UNCHANGED batch_vars

CallConvertFragment == Call("convert_fragment", convert_fragment(arg))

CallInjectMathjax == Call("inject_mathjax", inject_mathjax(arg))

CallEqAlignedPass == Call("EqAlignedPass", EqAlignedPass(arg))

CallLiteralPass == Call("LiteralPass", LiteralPass(arg))

NextCalls ==
    \/ CallConvertFragment
    \/ CallInjectMathjax
    \/ CallEqAlignedPass
    \/ CallLiteralPass

SpecCalls == InitCalls /\ [][NextCalls]_vars

(***************************************************************************)
(* Notions the claims are stated in.                                       *)
(***************************************************************************)
\* The positions at which sub occurs in s.
Occurrences(sub, s) ==
    {p \in 1..Len(s) : p + Len(sub) - 1 <= Len(s) /\ SubSeq(s, p, p + Len(sub) - 1) = sub}

\* s without its leading, and without its trailing, characters of cs.
WithoutLeading(s, cs) ==
    SubSeq(s, CHOOSE j \in 1..(Len(s) + 1) :
                  /\ j = Len(s) + 1 \/ s[j] \notin cs
                  /\ \A i \in 1..(j - 1) : s[i] \in cs,
           Len(s))

WithoutTrailing(s, cs) ==
    SubSeq(s, 1, CHOOSE j \in 0..Len(s) :
                     /\ j = 0 \/ s[j] \notin cs
                     /\ \A i \in (j + 1)..Len(s) : s[i] \in cs)

Trimmed(s) == WithoutTrailing(WithoutLeading(s, WS), WS)

\* The line inject_mathjax inserts.
ScriptLine == <<"\n"," "," "," "," ">> \o mathjax_script

\* An opening tag of a head element: the tag name is head, in either case, and is
\* followed by the end of the tag or by white space and attributes.
HeadTagName == <<{"<"}, {"h", "H"}, {"e", "E"}, {"a", "A"}, {"d", "D"}>>

HeadTags(s) ==
    ({MatchAt(<<LitSets(HeadTagName), Lit(<<">">>)>>, 1, s, p) : p \in 1..Len(s)}
     \cup {MatchAt(<<LitSets(HeadTagName), Star(FALSE, WS, FALSE, 1),
                     Star(TRUE, {">"}, FALSE, 0), Lit(<<">">>)>>, 1, s, p) : p \in 1..Len(s)})
    \ {NoMatch}

HasHeadElement(s) == HeadTags(s) # {}

\* The position after the opening tag of the first head element.
FirstHeadTagEnd(s) == MatchEnd(Earliest(HeadTags(s)))

InsertedAt(s, pos, text) == SubSeq(s, 1, pos - 1) \o text \o SubSeq(s, pos, Len(s))

\* Whether s holds one of the five region shapes.
HasRegion(s) ==
    \/ Search(SpanPattern(<<"i","n","l","i","n","e">>).items, s)
    \/ Search(SpanPattern(<<"d","i","s","p","l","a","y">>).items, s)
    \/ Search(SpanPattern(<<"e","q","-","a","l","i","g","n","e","d">>).items, s)
    \/ Search(SpanPattern(<<"i","m","p","l","-","a","l","i","g","n","e","d">>).items, s)
    \/ Search(literal_pattern.items, s)

\* The paths the current run has written its text back through.
WriteFailed ==
    /\ pc = "aborted"
    /\ error = "write"

Written == {f \in DOMAIN files : writes[f] = 1 /\ ~(WriteFailed /\ f = file)}

(***************************************************************************)
(* C1.  A document without any region is written back as it was read,      *)
(* except for the script line after the head tag when it has a head        *)
(* element; without a head element it is written back unchanged.           *)
(* Violated: inject_mathjax takes <header> for a head tag (see C8).        *)
(***************************************************************************)
C1_UnchangedButHeader ==
    \A f \in Written :
        ~HasRegion(text_read[f]) =>
            text_written[f] =
                IF HasHeadElement(text_read[f])
                THEN InsertedAt(text_read[f], FirstHeadTagEnd(text_read[f]), ScriptLine)
                ELSE text_read[f]

(***************************************************************************)
(* C2.  One run on a document with a head element adds exactly one script  *)
(* line, immediately after the opening tag of the first head element, and  *)
(* the region passes leave it there.                                       *)
(* Violated: the line goes after the first tag that begins with <head.     *)
(***************************************************************************)
C2_OneScriptAfterHead ==
    \A f \in Written :
        HasHeadElement(text_read[f]) =>
            /\ Cardinality(Occurrences(ScriptLine, text_written[f]))
                 = Cardinality(Occurrences(ScriptLine, text_read[f])) + 1
            /\ HasHeadElement(text_written[f])
            /\ FirstHeadTagEnd(text_written[f]) \in Occurrences(ScriptLine, text_written[f])

(***************************************************************************)
(* C3.  After any number of runs, a document with a head element holds the *)
(* script reference exactly once.                                          *)
(* Violated: every run injects again.                                      *)
(***************************************************************************)
C3_ScriptOnce ==
    \A f \in Written :
        HasHeadElement(text_written[f]) =>
            Cardinality(Occurrences(mathjax_script, text_written[f])) = 1

(***************************************************************************)
(* C4.  A literal region, wrapped or bare, is replaced by its payload,     *)
(* trimmed and otherwise verbatim: the wrapper and one closing brace go    *)
(* only when the wrapper is there, a bare payload keeps its braces.        *)
(* Violated: the pattern's optional closing brace also eats the last brace *)
(* of a bare payload.                                                      *)
(***************************************************************************)
C4_LiteralPayloadVerbatim ==
    (fn = "LiteralPass" /\ returned /\ given.kind \in {"wrapped", "bare"}) =>
        ret = <<"p"," ">> \o Trimmed(given.a) \o <<" ","q">>

(***************************************************************************)
(* C5.  An eq-aligned span of two lines, one = each, becomes an align*     *)
(* environment of two rows: each = is &=, one row break between the rows,  *)
(* none after the last.                                                    *)
(***************************************************************************)
RowBreak == <<" ","\\","\\"," ","\n">>

AlignEnvironment(rows) == <<"\\","["," ","\\","b","e","g","i","n","{","a","l","i","g","n","*","}"," ">> \o rows \o <<" ","\\","e","n","d","{","a","l","i","g","n","*","}"," ","\\","]">>

TwoRows(first, second) ==
    WithoutLeading(first[1], WS) \o <<"&","=">> \o first[2] \o RowBreak
    \o second[1] \o <<"&","=">> \o WithoutTrailing(second[2], WS)

C5_TwoAlignedRows ==
    (fn = "EqAlignedPass" /\ returned) =>
        /\ given.kind = "two-equations" =>
             ret = <<"p"," ">> \o AlignEnvironment(TwoRows(given.a, given.b)) \o <<" ","q">>
        /\ given.kind = "two-equations-pre" =>
             ret = AlignEnvironment(TwoRows(given.a, given.b))
        /\ Cardinality(Occurrences(<<"\\","\\">>, ret)) = 1
        /\ Cardinality(Occurrences(<<"=">>, ret)) = 2
        /\ Cardinality(Occurrences(<<"&","=">>, ret)) = 2

C5_Witness ==
    /\ fn = "EqAlignedPass"
    /\ returned
    /\ given.kind = "two-equations-pre"
    /\ given.a = << <<" ","c">>, <<"b"," ">> >>
    /\ ret = <<"\\","["," ","\\","b","e","g","i","n","{","a","l","i","g","n","*","}"," ","c","&","=","b"," "," ","\\","\\"," ","\n","b"," ","&","="," ","c"," ","\\","e","n","d","{","a","l","i","g","n","*","}"," ","\\","]">>

(***************************************************************************)
(* C6.  As claimed: (A)/(B), with A and B free of parentheses and angle    *)
(* brackets, becomes \cfrac{A}{B} with A and B verbatim.                   *)
(* Violated: an empty operand is no division, and the spaces that lead an  *)
(* operand are not captured.                                               *)
(***************************************************************************)
C6_OperandsVerbatim ==
    (fn = "convert_fragment" /\ returned /\ given.kind = "division") =>
        ret = <<"\\","c","f","r","a","c","{">> \o given.a \o <<"}","{">> \o given.b \o <<"}">>

(***************************************************************************)
(* C6, amended.  (A)/(B) with A and B not empty becomes \cfrac{A'}{B'},    *)
(* A' and B' being A and B without their leading spaces (one space when    *)
(* the operand is nothing but spaces); the parentheses are not rewritten   *)
(* by the parenthesis rule.                                                *)
(***************************************************************************)
Captured(operand) ==
    IF WithoutLeading(operand, {" "}) = <<>> THEN <<" ">>
    ELSE WithoutLeading(operand, {" "})

C6_CapturedOperands ==
    (fn = "convert_fragment" /\ returned /\ given.kind = "division"
     /\ given.a # <<>> /\ given.b # <<>>) =>
        ret = <<"\\","c","f","r","a","c","{">> \o Captured(given.a) \o <<"}","{">> \o Captured(given.b) \o <<"}">>

C6_Witness ==
    /\ fn = "convert_fragment"
    /\ returned
    /\ given.kind = "division"
    /\ given.a = <<" ","a">>
    /\ given.b = <<"a","+">>
    /\ ret = <<"\\","c","f","r","a","c","{","a","}","{","a","+","}">>

(***************************************************************************)
(* C7.  &radic;(X) becomes \sqrt{X}: no &radic; and no sized delimiters    *)
(* remain.                                                                 *)
(* Violated: the parenthesis rules come first in the table and rewrite the *)
(* parentheses, so the square-root rule never matches.                     *)
(***************************************************************************)
C7_SquareRoot ==
    (fn = "convert_fragment" /\ returned /\ given.kind = "radical") =>
        /\ ret = <<"\\","s","q","r","t","{">> \o given.a \o <<"}">>
        /\ Occurrences(<<"&","r","a","d","i","c",";">>, ret) = {}
        /\ Occurrences(<<"\\","l","e","f","t">>, ret) = {}

(***************************************************************************)
(* C8.  inject_mathjax returns a document without a head element as it is, *)
(* whatever other tags it holds.                                           *)
(* Violated: r'<head.*?>' matches <header> and <heading>.                  *)
(***************************************************************************)
C8_NoHeadNoInjection ==
    (fn = "inject_mathjax" /\ returned /\ ~HasHeadElement(arg)) => ret = arg

(***************************************************************************)
(* C9.  The files are processed one at a time in glob order and a failure  *)
(* is not isolated: when reading a file fails, the files before it have    *)
(* been rewritten, the file itself is as the run found it, no file after   *)
(* it is read or written, and the run ends without the completion message; *)
(* a run in which no file fails reads and writes every file exactly once.  *)
(* Violated: a file that another path before it also names has been        *)
(* rewritten through that path when the read through its own path fails.   *)
(***************************************************************************)
Processed(f) ==
    /\ reads[f] = 1
    /\ writes[f] = 1

Untouched(f) ==
    /\ reads[f] = 0
    /\ writes[f] = 0

ReadFailed ==
    /\ pc = "aborted"
    /\ error = "read"

OneAtATime ==
    /\ \A f \in DOMAIN files :
         /\ f < file => Processed(f)
         /\ f = file =>
              /\ reads[f] = IF pc = "for" \/ ReadFailed THEN 0 ELSE 1
              /\ writes[f] = IF WriteFailed THEN 1 ELSE 0
         /\ f > file => Untouched(f)
    /\ ReadFailed => file \in Files /\ ~readable[file]
    /\ pc = "complete" => file = NumFiles + 1 /\ error = "none"

C9_BatchOrder ==
    /\ OneAtATime
    /\ ReadFailed => files[file] = before[file]

(***************************************************************************)
(* C9, as it holds: the paths are processed one at a time in glob order;   *)
(* each path before the loop's is read once and rewritten once with the    *)
(* converted text of what was read through it, no path after it is read or *)
(* written, and each file holds what the last rewrite through one of its   *)
(* paths stored, or, with no such rewrite, what the run found (so the file *)
(* whose read fails is as the run found it unless a path before it names   *)
(* the same file); a write that fails leaves its file with a part of the   *)
(* converted text; a run that completes has passed every path.             *)
(***************************************************************************)
Last(paths) == CHOOSE f \in paths : \A g \in paths : g <= f

IsProperPrefix(part, text) ==
    /\ Len(part) < Len(text)
    /\ part = SubSeq(text, 1, Len(part))

\* What path f holds after the rewrites through the given paths.
After(f, rewrites) ==
    IF links[f] \cap rewrites = {} THEN before[f]
    ELSE text_written[Last(links[f] \cap rewrites)]

C9_PathOrder ==
    /\ OneAtATime
    /\ (pc = "for" /\ file - 1 \in Written) =>
         text_written[file - 1] = Converted(text_read[file - 1])
    /\ WriteFailed => IsProperPrefix(text_written[file], Converted(text_read[file]))
    /\ \A f \in DOMAIN files :
         /\ reads[f] = 1 => text_read[f] = After(f, Written \cap 1..(f - 1))
         /\ files[f] = IF WriteFailed /\ f \in links[file]
                       THEN text_written[file]
                       ELSE After(f, Written)

C9_Witness ==
    /\ ReadFailed
    /\ file = NumFiles
    /\ \A f \in 1..(NumFiles - 1) : f \in Written /\ files[f] # before[f]

(***************************************************************************)
(* C10.  The literal pass leaves a latex-replaceable span that no marker   *)
(* comment follows as it is, with the text between it and a later literal  *)
(* region.                                                                 *)
(* Violated: the lazy .*? of the pattern runs across the first </span> up  *)
(* to the </span> the comment follows.                                     *)
(***************************************************************************)
C10_UnpairedSpanKept ==
    (fn = "LiteralPass" /\ returned /\ given.kind = "unpaired") =>
        ret = ReplaceableSpan(<<"A">>) \o given.a \o Trimmed(given.b)

====
